---- MODULE Spec2Model ----
(***************************************************************************)
(* A model of the Loan.ly call-flow server (src/app.py): the process-wide  *)
(* dictionary active_calls, the outbound call initiator (/call), the voice *)
(* webhook (/handle-call), the status webhook (/call-status) and the       *)
(* finalization routine process_incomplete_application.                    *)
(*                                                                         *)
(* Granularity.  A request handler runs atomically between two blocking    *)
(* calls to an external service: placing a call with the telephony gateway *)
(* (client.calls.create) and asking the decision service for a verdict     *)
(* (client.chat.completions.create).  While a handler waits in one of      *)
(* them, other requests are served (app.run is threaded).                  *)
(*                                                                         *)
(* Strings.  A key of active_calls is modelled by the sequence of its      *)
(* parts between underscores:  "+91.._credit_card" is                      *)
(* <<"+91..", "credit", "card">>, and "+91.." is <<"+91..">>.  Phone       *)
(* numbers are the 13-character numbers format_phone_number lets through,  *)
(* so one is a prefix of another only when they are equal, and they hold   *)
(* no underscore.                                                          *)
(***************************************************************************)
EXTENDS Integers, Sequences, FiniteSets, TLC

VARIABLES
    active_calls,   \* the dictionary: key -> entry
    key_order,      \* its keys in insertion order (Python dicts keep it)
    now,            \* the wall clock, in seconds
    next_sid,       \* the gateway: number of calls placed so far
    pending,        \* the gateway: per call in progress, the callback it
                    \* requests when the caller has spoken
    thread,         \* per request thread: where it waits, and its locals
    last,           \* the response of the request that completed last
    evaluated,      \* history: the decision-service invocations, in order
    persisted,      \* history: the result-file writes, in order
    epoch,          \* history: per key, how many sessions were created
    boundary,       \* history: the keys whose terminal question boundary
                    \* (step = len(questions) + 1) the controller has handled
    asked,          \* history: per phone number and application type, the
                    \* questions spoken so far in the flow of its latest call
    n_requests,     \* history: number of /call and /call-status requests
    n_callbacks     \* history: number of /handle-call requests

vars == <<active_calls, key_order, now, next_sid, pending, thread, last,
          evaluated, persisted, epoch, boundary, asked,
          n_requests, n_callbacks>>

----------------------------------------------------------------------------
(* Bounds of the model *)

MaxRequests == 3
MaxCallbacks == 6
MaxReplays == 2
StepsBeyond == 1
StepsBelow == 2
MaxTicks == 1
MaxAnswers == 5
MaxForeign == 1

MaxThreads == 2
Threads == 1..MaxThreads
Phones == {"+919999999999"}
OtherPhones == {"+919999999998"}
Names == {"Asha"}

----------------------------------------------------------------------------
(* Program constants *)

Cooldown == 30

TerminalStatuses == {"completed", "failed", "busy", "no-answer", "canceled"}

generate_loan_questions ==
    << "What is your current age?",
       "What is your monthly income in Indian Rupees?",
       "Are you a salaried employee, self-employed, or a business owner?",
       "In which city and state do you currently reside?",
       "What is your current occupation and industry?",
       "How much loan amount are you seeking in Indian Rupees?",
       "Do you have a CIBIL credit score?",
       "Are you a first-time loan applicant?",
       "Do you have any existing EMIs or loan commitments?",
       "What is the primary purpose of this loan?" >>

generate_cc_questions ==
    << "What is your current age?",
       "What is your annual income in Indian Rupees?",
       "Are you employed in private sector, government, or self-employed?" >>

AppTypes == {"loan", "credit_card"}

\* questions = loan questions if application_type == 'loan' else cc questions
questions(application_type) ==
    IF application_type = "loan" THEN generate_loan_questions
                                 ELSE generate_cc_questions

\* a list of length n has the indices -n .. n-1; another raises IndexError
HasIndex(list, i) == (0 - Len(list)) <= i /\ i < Len(list)

\* Python's list[i]: 0-based, a negative index counts from the end
ListAt(list, i) == IF i >= 0 THEN list[i + 1] ELSE list[Len(list) + i + 1]

\* questions[i]
QuestionAt(application_type, i) == ListAt(questions(application_type), i)

----------------------------------------------------------------------------
(* Strings *)

\* application_type.split('_')
SplitType(application_type) ==
    IF application_type = "credit_card" THEN <<"credit", "card">>
                                        ELSE <<application_type>>

\* f"{phone_number}_{application_type}"
SessionKey(phone_number, application_type) ==
    <<phone_number>> \o SplitType(application_type)

\* the key initiate_automated_call stores under: the phone number itself
CallKey(phone_number) == <<phone_number>>

\* the characters of a phone number
PhoneChars(phone_number) ==
    CASE phone_number = "+919999999999" ->
             <<"+", "9", "1", "9", "9", "9", "9", "9", "9", "9", "9", "9", "9">>
      [] phone_number = "+919999999998" ->
             <<"+", "9", "1", "9", "9", "9", "9", "9", "9", "9", "9", "9", "8">>

\* the characters of a key: those of the phone number, then an underscore and
\* the parts of the application type
KeyChars(k) ==
    PhoneChars(k[1]) \o (IF Len(k) > 1 THEN <<"_">> \o Tail(k) ELSE <<>>)

\* text.startswith(prefix)
StartsWith(text, prefix) ==
    /\ Len(prefix) <= Len(text)
    /\ \A i \in 1..Len(prefix) : text[i] = prefix[i]

\* every key taken for a key of the phone number
KeyMatches_all(k, phone_number) == TRUE

\* k.startswith(phone_number) or k == phone_number
KeyMatches(k, phone_number) ==
    \/ StartsWith(KeyChars(k), PhoneChars(phone_number))
    \/ k = <<phone_number>>

\* session_key.split('_')[1] if '_' in session_key else 'unknown'
KeyApplicationType(k) == IF Len(k) > 1 THEN k[2] ELSE "unknown"

\* The caller's utterances, as the characters the speech recogniser returns.
Utterances == {"", "Yes sure", "no thanks"}

Chars(u) ==
    CASE u = "Yes sure"  -> <<"Y", "e", "s", " ", "s", "u", "r", "e">>
      [] u = "no thanks" -> <<"n", "o", " ", "t", "h", "a", "n", "k", "s">>
      [] u = "yes"       -> <<"y", "e", "s">>
      [] u = "okay"      -> <<"o", "k", "a", "y">>
      [] u = "sure"      -> <<"s", "u", "r", "e">>
      [] u = "go ahead"  -> <<"g", "o", " ", "a", "h", "e", "a", "d">>
      [] OTHER           -> <<>>

\* str.lower(), on the characters in use
LowerChar(c) == IF c = "Y" THEN "y" ELSE c
Lower(s) == [i \in 1..Len(s) |-> LowerChar(s[i])]

\* word in text
Contains(text, word) ==
    \E i \in 0..(Len(text) - Len(word)) :
        \A j \in 1..Len(word) : text[i + j] = word[j]

AffirmativeWords == {"yes", "okay", "sure", "go ahead"}

\* the whole utterance compared with the keywords
IsAffirmative_exact(previous_response) == previous_response \in AffirmativeWords

\* any speech taken for consent
IsAffirmative_any(previous_response) == previous_response # ""

\* previous_response and any(word in previous_response.lower() for word in [...])
IsAffirmative(previous_response) ==
    /\ previous_response # ""
    /\ \E word \in AffirmativeWords :
           Contains(Lower(Chars(previous_response)), Chars(word))

----------------------------------------------------------------------------
(* The dictionary *)

Has(d, field) == field \in DOMAIN d

\* session_data.get('verdict_delivered')
VerdictDelivered(session_data) ==
    Has(session_data, "verdict_delivered") /\ session_data.verdict_delivered

\* d[k] = v : a new key goes to the end of the order, an old one keeps its place
DictSet(d, k, v) == (k :> v) @@ d
OrderSet(order, d, k) == IF k \in DOMAIN d THEN order ELSE Append(order, k)

\* the clean-up of the session left out
DictDel_kept(d, k) == d

\* del d[k]
DictDel(d, k) == [x \in (DOMAIN d) \ {k} |-> d[x]]
OrderDel(order, k) == SelectSeq(order, LAMBDA x : x # k)

----------------------------------------------------------------------------
(* Voice-response documents (TwiML): a sequence of verbs *)

Say(text) == [verb |-> "Say", text |-> text]
Pause == [verb |-> "Pause"]
Hangup == [verb |-> "Hangup"]
\* <Gather action=url> with the verbs nested in it
Gather(url, nested) == [verb |-> "Gather", action |-> url, nested |-> nested]

\* /handle-call?application_type=..&name=..&step=..&phone_number=..
Url(application_type, customer_name, step, phone_number) ==
    [application_type |-> application_type, name |-> customer_name,
     step |-> step, phone_number |-> phone_number]

\* "credit card" if application_type == "credit_card" else application_type
display_type(application_type) ==
    IF application_type = "credit_card" THEN "credit card" ELSE application_type

OpeningLine(customer_name, application_type) ==
    <<"Hi", customer_name,
      "is it the right time to speak to you about your",
      display_type(application_type), "application?">>
TransitionLine(application_type) ==
    <<"Great! I'll ask you a few questions to evaluate your",
      display_type(application_type), "application.">>
DeclineLine ==
    <<"I understand this isn't a good time. We'll call you back later. Thank you!">>
OutroLine1 ==
    <<"Thank you for providing the information. We are now evaluating your application.">>
OutroLine2 ==
    <<"Our team will reach out to you within 24 hours with the results. Have a great day!">>
ApologyLine ==
    <<"I apologize, but there was an error. We will call you back later.">>

OutroDocument == <<Say(OutroLine1), Pause, Say(OutroLine2), Hangup>>

\* the call hung up with no apology
ErrorDocument_silent == <<Hangup>>

\* except Exception: the apology, then a hangup
ErrorDocument == <<Say(ApologyLine), Hangup>>

----------------------------------------------------------------------------
(* State after construction: empty dictionary, no request in flight *)

Idle == [pc |-> "idle"]
NoResponse == [op |-> "none"]

\* A request is served by a free thread of the pool; which one makes no
\* difference, so the first free one is taken.
IsFree(t) ==
    /\ thread[t].pc = "idle"
    /\ \A u \in Threads : u < t => thread[u].pc # "idle"

Init ==
    /\ active_calls = <<>>
    /\ key_order = <<>>
    /\ now = 0
    /\ next_sid = 0
    /\ pending = <<>>
    /\ thread = [t \in Threads |-> Idle]
    /\ last = NoResponse
    /\ evaluated = <<>>
    /\ persisted = <<>>
    /\ epoch = <<>>
    /\ boundary = {}
    /\ asked = <<>>
    /\ n_requests = 0
    /\ n_callbacks = 0

\* history: the number of sessions created so far under key k
Epoch(k) == IF k \in DOMAIN epoch THEN epoch[k] ELSE 0

\* a request to /call or /call-status arrives
Receive == /\ n_requests < MaxRequests
           /\ n_requests' = n_requests + 1
           /\ UNCHANGED n_callbacks

\* a request to /handle-call arrives
ReceiveCallback == /\ n_callbacks' = n_callbacks + 1
                   /\ UNCHANGED n_requests

\* time passes, a cooldown window at a time
TickStep == Cooldown

Tick ==
    /\ now + TickStep <= MaxTicks * TickStep
    /\ now' = now + TickStep
    /\ UNCHANGED <<active_calls, key_order, next_sid, pending, thread, last,
                   evaluated, persisted, epoch, boundary, asked,
                   n_requests, n_callbacks>>

----------------------------------------------------------------------------
(* POST /call : call() and initiate_automated_call() *)

\* the comparison of the cooldown check turned around
InCooldown_reversed(time_diff) == time_diff > Cooldown

\* time_diff.total_seconds() < 30
InCooldown(time_diff) == time_diff < Cooldown

\* 'cc' is converted to 'credit_card' for internal processing
InternalType(type) == IF type = "cc" THEN "credit_card" ELSE type

\* The handler up to client.calls.create: the check for an active call.
call(t, type, phone, name) ==
    LET application_type == InternalType(type)
        customer_number == phone
        k == CallKey(customer_number)
        active == k \in DOMAIN active_calls
        recent == active /\ InCooldown(now - active_calls[k].timestamp)
    IN  /\ IsFree(t)
        /\ Receive
        /\ IF recent
           THEN /\ last' = [op |-> "call", status |-> 409, at |-> now,
                            phone |-> customer_number,
                            application_type |-> application_type,
                            call_sid |-> active_calls[k].call_sid]
                /\ UNCHANGED <<active_calls, key_order, thread>>
           ELSE /\ active_calls' = IF active THEN DictDel(active_calls, k)
                                             ELSE active_calls
                /\ key_order' = IF active THEN OrderDel(key_order, k)
                                          ELSE key_order
                /\ thread' = [thread EXCEPT ![t] =
                                 [pc |-> "placing",
                                  application_type |-> application_type,
                                  customer_number |-> customer_number,
                                  customer_name |-> name,
                                  replaced |-> active]]
                /\ UNCHANGED last
        /\ UNCHANGED <<now, next_sid, pending, evaluated, persisted, epoch,
                       boundary, asked>>

\* active_calls[customer_number] = {'call_sid', 'timestamp', 'customer_name',
\*                                  'application_type'}
CallEntry(sid, customer_name, application_type) ==
    [call_sid |-> sid, timestamp |-> now,
     customer_name |-> customer_name, application_type |-> application_type]

\* client.calls.create returned: the call info is stored, 200 is returned.
call_created(t) ==
    LET l == thread[t]
        k == CallKey(l.customer_number)
        sid == next_sid + 1
    IN  /\ l.pc = "placing"
        /\ next_sid' = sid
        /\ pending' = (<<l.customer_number, l.application_type>> :>
                           Url(l.application_type, l.customer_name, 0,
                               l.customer_number)) @@ pending
        /\ active_calls' = DictSet(active_calls, k,
                               CallEntry(sid, l.customer_name, l.application_type))
        /\ key_order' = OrderSet(key_order, active_calls, k)
        /\ last' = [op |-> "call", status |-> 200, at |-> now,
                    replaced |-> l.replaced,
                    phone |-> l.customer_number,
                    application_type |-> l.application_type,
                    call_sid |-> sid]
        /\ thread' = [thread EXCEPT ![t] = Idle]
        /\ asked' = [x \in (DOMAIN asked) \ {<<l.customer_number, l.application_type>>}
                         |-> asked[x]]
        /\ UNCHANGED <<now, evaluated, persisted, epoch, boundary, n_requests, n_callbacks>>

\* client.calls.create raised: except Exception -> 500, nothing is stored.
call_failed(t) ==
    LET l == thread[t]
    IN  /\ l.pc = "placing"
        /\ last' = [op |-> "call", status |-> 500, at |-> now,
                    phone |-> l.customer_number,
                    application_type |-> l.application_type,
                    call_sid |-> 0]
        /\ thread' = [thread EXCEPT ![t] = Idle]
        /\ UNCHANGED <<active_calls, key_order, now, next_sid, pending,
                       evaluated, persisted, epoch, boundary, asked,
                   n_requests, n_callbacks>>

----------------------------------------------------------------------------
(* POST /handle-call : the call-flow controller *)

\* the index a response arriving at `step` is stored under: responses[step-2]
ResponseIndex(step) == step - 2

\* question_index = step - 2
QuestionIndex(step) == step - 2

\* should_play_outro: the last question index is reached, or the gateway
\* reports with this callback that the call is ending
should_play_outro(question_index, application_type, CallStatus) ==
    \/ question_index >= Len(questions(application_type)) - 1
    \/ CallStatus \in TerminalStatuses

\* the upper bound of the question range left out
InQuestionRange_open(step, application_type) == TRUE

\* elif step < len(questions) + 2
InQuestionRange(step, application_type) ==
    step < Len(questions(application_type)) + 2

\* {'responses': {}, 'customer_name': customer_name}
NewSession(customer_name) ==
    [responses |-> <<>>, customer_name |-> customer_name]

\* the responses kept as a list that every response is appended to
StoreResponse_appended(calls, session_key, customer_name, step, previous_response) ==
    LET session == IF session_key \in DOMAIN calls THEN calls[session_key]
                                                   ELSE NewSession(customer_name)
    IN  DictSet(calls, session_key,
                [session EXCEPT !.responses =
                    (Cardinality(DOMAIN session.responses) :> previous_response) @@ @])

\* the entry written anew with every response
StoreResponse_fresh(calls, session_key, customer_name, step, previous_response) ==
    DictSet(calls, session_key,
            [NewSession(customer_name) EXCEPT !.responses =
                (ResponseIndex(step) :> previous_response)])

\* if previous_response: ... active_calls[session_key]['responses'][step-2] = ...
StoreResponse(calls, session_key, customer_name, step, previous_response) ==
    LET session == IF session_key \in DOMAIN calls THEN calls[session_key]
                                                   ELSE NewSession(customer_name)
        stored == [session EXCEPT !.responses =
                      (ResponseIndex(step) :> previous_response) @@ @]
    IN  DictSet(calls, session_key, stored)

\* active_calls[session_key]['verdict_delivered'] = True; ['outro_played'] = True
MarkDelivered(calls, session_key) ==
    IF session_key \in DOMAIN calls
    THEN DictSet(calls, session_key,
                 ("verdict_delivered" :> TRUE) @@ ("outro_played" :> TRUE)
                     @@ calls[session_key])
    ELSE calls

\* the dictionary after the handler, for step >= 2 in the question range
CallsAfterQuestionStep(application_type, customer_name, step, previous_response, phone_number, CallStatus) ==
    LET session_key == SessionKey(phone_number, application_type)
        stored == IF previous_response # ""
                  THEN StoreResponse(active_calls, session_key, customer_name,
                                     step, previous_response)
                  ELSE active_calls
    IN  IF should_play_outro(QuestionIndex(step), application_type, CallStatus)
        THEN MarkDelivered(stored, session_key)
        ELSE stored

\* request.args.get('application_type') of a request without the parameter:
\* None, which an f-string renders as "None"
NoType == "None"

\* quote(application_type) raises TypeError for None
QuoteRaises(application_type) == application_type = NoType

\* the handler raises: while it builds the next URL of a <Gather>, or when it
\* looks up the question to ask
Raises(application_type, step, previous_response, CallStatus) ==
    IF step = 0 THEN QuoteRaises(application_type)
    ELSE IF step = 1
    THEN IsAffirmative(previous_response) /\ QuoteRaises(application_type)
    ELSE IF InQuestionRange(step, application_type)
    THEN /\ ~should_play_outro(QuestionIndex(step), application_type, CallStatus)
         /\ \/ QuoteRaises(application_type)
            \/ ~HasIndex(questions(application_type), QuestionIndex(step))
    ELSE FALSE

\* the voice-response document the handler builds when nothing raises
twiml_response(application_type, customer_name, step, previous_response, phone_number, CallStatus) ==
    IF step = 0
    THEN << Say(OpeningLine(customer_name, application_type)),
            Gather(Url(application_type, customer_name, 1, phone_number), <<>>) >>
    ELSE IF step = 1
    THEN IF IsAffirmative(previous_response)
         THEN << Say(TransitionLine(application_type)),
                 Pause,
                 Gather(Url(application_type, customer_name, 2, phone_number),
                        <<Say(<<QuestionAt(application_type, 0)>>)>>) >>
         ELSE << Say(DeclineLine), Hangup >>
    ELSE IF InQuestionRange(step, application_type)
    THEN IF should_play_outro(QuestionIndex(step), application_type, CallStatus)
         THEN OutroDocument
         ELSE << Gather(Url(application_type, customer_name, step + 1, phone_number),
                        <<Say(<<QuestionAt(application_type,
                                           QuestionIndex(step))>>)>>) >>
    ELSE <<>>

\* the voice-response document the handler returns
Document(application_type, customer_name, step, previous_response, phone_number, CallStatus) ==
    IF Raises(application_type, step, previous_response, CallStatus)
    THEN ErrorDocument
    ELSE twiml_response(application_type, customer_name, step,
                        previous_response, phone_number, CallStatus)

\* history: the question prompts a document speaks inside its gather verb.
Prompts(document) ==
    LET gathers == SelectSeq(document, LAMBDA v : v.verb = "Gather")
    IN  IF gathers = <<>>
        THEN <<>>
        ELSE [i \in 1..Len(gathers[1].nested) |-> gathers[1].nested[i].text]

\* history: the questions spoken so far in the current flow of a phone number
\* and application type.
Asked(phone_number, application_type) ==
    IF <<phone_number, application_type>> \in DOMAIN asked
    THEN asked[<<phone_number, application_type>>]
    ELSE <<>>

\* history: the prompt the caller is replying to, i.e. the question spoken by
\* the directive that precedes this callback in the flow (<<>> when none).
Answering(phone_number, application_type) ==
    LET spoken == Asked(phone_number, application_type)
    IN  IF spoken = <<>> THEN <<>> ELSE spoken[Len(spoken)]

handle_call(application_type, customer_name, step, previous_response, phone_number, CallStatus) ==
    LET session_key == SessionKey(phone_number, application_type)
        in_questions == step \notin {0, 1} /\ InQuestionRange(step, application_type)
        creates == /\ in_questions
                   /\ previous_response # ""
                   /\ session_key \notin DOMAIN active_calls
        \* history: a response was already recorded under the index
        replay == /\ in_questions
                  /\ previous_response # ""
                  /\ session_key \in DOMAIN active_calls
                  /\ ResponseIndex(step) \in DOMAIN active_calls[session_key].responses
    IN  /\ ReceiveCallback
        /\ active_calls' =
              IF in_questions
              THEN CallsAfterQuestionStep(application_type, customer_name, step,
                                          previous_response, phone_number,
                                          CallStatus)
              ELSE active_calls
        /\ key_order' = IF creates THEN Append(key_order, session_key)
                                   ELSE key_order
        /\ epoch' = IF creates
                    THEN (session_key :> Epoch(session_key) + 1) @@ epoch
                    ELSE epoch
        /\ boundary' = IF step = Len(questions(application_type)) + 1
                       THEN boundary \cup {session_key}
                       ELSE boundary
        /\ last' = [op |-> "handle_call",
                    application_type |-> application_type,
                    step |-> step,
                    previous_response |-> previous_response,
                    phone_number |-> phone_number,
                    CallStatus |-> CallStatus,
                    replay |-> replay,
                    answers |-> Answering(phone_number, application_type),
                    document |-> Document(application_type, customer_name, step,
                                          previous_response, phone_number,
                                          CallStatus)]
        /\ asked' =
              LET prompts == Prompts(Document(application_type, customer_name,
                                              step, previous_response,
                                              phone_number, CallStatus))
              IN  IF prompts = <<>>
                  THEN asked
                  ELSE (<<phone_number, application_type>> :>
                            Asked(phone_number, application_type) \o prompts)
                       @@ asked
        /\ UNCHANGED <<now, next_sid, thread, evaluated, persisted>>

\* int(step) raises ValueError: nothing was done yet, the apology is returned
handle_call_raised(application_type, step_text, previous_response, phone_number, CallStatus) ==
    /\ ReceiveCallback
    /\ last' = [op |-> "handle_call_raised",
                application_type |-> application_type,
                step_text |-> step_text,
                previous_response |-> previous_response,
                phone_number |-> phone_number,
                CallStatus |-> CallStatus,
                document |-> ErrorDocument]
    /\ UNCHANGED <<active_calls, key_order, epoch, boundary, asked, now, next_sid,
                   thread, evaluated, persisted>>

----------------------------------------------------------------------------
(* The decision service *)

\* What the service may answer: a text, given as its leading white space,
\* its body and its trailing white space.
Replies ==
    { [lead |-> " ", body |-> "YES", trail |-> "\n"],
      [lead |-> "",  body |-> "NO",  trail |-> ""],
      [lead |-> "",  body |-> "The application looks fine.", trail |-> ""] }

\* response.choices[0].message.content.strip()
Strip(content) == content.body

\* the text of the exception returned for a verdict
FallbackVerdict_error == "Connection error."

\* except Exception: return "INVESTIGATION_REQUIRED"
FallbackVerdict == "INVESTIGATION_REQUIRED"

\* evaluate_cc_application for 'credit_card', evaluate_loan_application otherwise
Rubric(application_type) ==
    IF application_type = "credit_card" THEN "credit_card" ELSE "loan"

----------------------------------------------------------------------------
(* POST /call-status and process_incomplete_application *)

\* CallDuration as the gateway sends it: a string of characters, <<>> if absent
Durations == { <<>>, <<"4", "5">>, <<"x">> }

Digits == <<"0", "1", "2", "3", "4", "5", "6", "7", "8", "9">>
IsDigit(c) == \E d \in 1..Len(Digits) : Digits[d] = c
DigitValue(c) == (CHOOSE d \in 1..Len(Digits) : Digits[d] = c) - 1

\* the digits of s, after its sign if it has one
Unsigned(s) == IF Len(s) > 0 /\ s[1] = "-" THEN Tail(s) ELSE s

\* int(s) raises ValueError unless s is a string of digits, signed or not
IsInt(s) == Len(Unsigned(s)) > 0 /\ \A i \in 1..Len(Unsigned(s)) : IsDigit(Unsigned(s)[i])
RECURSIVE ParseDigits(_)
ParseDigits(s) ==
    IF Len(s) = 0 THEN 0
    ELSE 10 * ParseDigits(SubSeq(s, 1, Len(s) - 1)) + DigitValue(s[Len(s)])

\* int(s)
ParseInt(s) == IF Len(s) > 0 /\ s[1] = "-" THEN 0 - ParseDigits(Tail(s))
                                           ELSE ParseDigits(s)

\* comments, from the verdict and the call duration
VerdictComment(verdict) ==
    IF verdict = "YES" THEN "Application meets all eligibility criteria"
    ELSE IF verdict = "NO"
    THEN "Application does not meet minimum eligibility requirements"
    ELSE "Further verification and documentation required"

DurationComments(CallDuration) ==
    IF CallDuration = <<>> THEN <<>>
    ELSE IF ParseInt(CallDuration) < 30
    THEN <<"Call duration was too short - incomplete information">>
    ELSE IF ParseInt(CallDuration) < 60
    THEN <<"Partial information collected">>
    ELSE <<>>

\* "Credit Card" if application_type == 'credit_card' else "Loan"
RecordType(application_type) ==
    IF application_type = "credit_card" THEN "Credit Card" ELSE "Loan"

\* response_data
ResponseData(customer_name, phone_number, application_type, verdict, call_data) ==
    [customer_name |-> customer_name,
     phone_number |-> phone_number,
     application_type |-> RecordType(application_type),
     verdict |-> verdict,
     comments |-> <<VerdictComment(verdict)>>
                     \o DurationComments(call_data.CallDuration),
     timestamp |-> now,
     call_duration |-> call_data.CallDuration,
     call_status |-> call_data.CallStatus]

\* f"responses/{datetime.now().strftime('%Y%m%d_%H%M%S')}_{phone_number}.json"
FileName(phone_number) == <<now, phone_number>>

\* session_keys = [k for k in active_calls.keys() if k.startswith(phone_number) ...]
SessionKeys(phone_number) ==
    SelectSeq(key_order, LAMBDA k : KeyMatches(k, phone_number))

\* session_data = active_calls.get(session_key, {})
GetSession(calls, session_key) ==
    IF session_key \in DOMAIN calls THEN calls[session_key] ELSE <<>>

\* the check of verdict_delivered left out
IsProcessed_unguarded(session_data) == Has(session_data, "responses")

\* a key the loop does not skip: the verdict is not marked delivered and the
\* entry has responses
IsProcessed(session_data) ==
    /\ ~VerdictDelivered(session_data)
    /\ Has(session_data, "responses")

\* the position in `keys` of the first key the loop processes, 0 if none
FirstProcessed(keys, calls) ==
    LET hits == {i \in 1..Len(keys) : IsProcessed(GetSession(calls, keys[i]))}
    IN  IF hits = {} THEN 0 ELSE CHOOSE i \in hits : \A j \in hits : i <= j

\* the response of /call-status to a terminal status: the outro document
StatusResponse(phone_number, call_data) ==
    [op |-> "call_status", To |-> phone_number,
     CallStatus |-> call_data.CallStatus, body |-> OutroDocument]

\* The loop over `keys`, run with the dictionary `calls`, up to the request to
\* the decision service for the first key it processes, or to its end.
RunLoop(t, phone_number, call_data, keys, calls) ==
    LET i == FirstProcessed(keys, calls)
    IN  IF i = 0
        THEN /\ thread' = [thread EXCEPT ![t] = Idle]
             /\ last' = StatusResponse(phone_number, call_data)
             /\ UNCHANGED evaluated
        ELSE LET session_key == keys[i]
                 session_data == calls[session_key]
                 application_type == KeyApplicationType(session_key)
             IN  /\ thread' = [thread EXCEPT ![t] =
                        [pc |-> "evaluating",
                         phone_number |-> phone_number,
                         call_data |-> call_data,
                         session_key |-> session_key,
                         rest |-> SubSeq(keys, i + 1, Len(keys)),
                         application_type |-> application_type,
                         customer_name |-> session_data.customer_name]]
                 /\ evaluated' = Append(evaluated,
                        [session_key |-> session_key,
                         epoch |-> Epoch(session_key),
                         rubric |-> Rubric(application_type),
                         application_data |-> session_data.responses])
                 /\ UNCHANGED last

call_status(t, CallStatus, To, CallDuration) ==
    LET call_data == [CallStatus |-> CallStatus, CallDuration |-> CallDuration]
    IN  /\ IsFree(t)
        /\ Receive
        /\ IF CallStatus \in TerminalStatuses
           THEN RunLoop(t, To, call_data, SessionKeys(To), active_calls)
           ELSE /\ last' = [op |-> "call_status", To |-> To,
                            CallStatus |-> CallStatus, body |-> <<>>]
                /\ UNCHANGED <<thread, evaluated>>
        /\ UNCHANGED <<active_calls, key_order, now, next_sid, pending,
                       persisted, epoch, boundary, asked>>

\* The function is left through its outer except: nothing more is done.
Abort(t) ==
    LET l == thread[t]
    IN  /\ thread' = [thread EXCEPT ![t] = Idle]
        /\ last' = StatusResponse(l.phone_number, l.call_data)
        /\ UNCHANGED <<active_calls, key_order, evaluated>>

\* From the verdict on: comments, the result file, the clean-up of the
\* session, and the rest of the loop.
Finish(t, verdict, write_ok) ==
    LET l == thread[t]
        duration == l.call_data.CallDuration
    IN  IF duration # <<>> /\ ~IsInt(duration)
        THEN \* int(call_data.get('CallDuration', 0)) raises
             Abort(t) /\ UNCHANGED persisted
        ELSE IF ~write_ok
        THEN \* open(filename, 'w') or json.dump raises
             Abort(t) /\ UNCHANGED persisted
        ELSE /\ persisted' = Append(persisted,
                    [filename |-> FileName(l.phone_number),
                     response_data |-> ResponseData(l.customer_name,
                         l.phone_number, l.application_type, verdict, l.call_data),
                     session_key |-> l.session_key,
                     epoch |-> Epoch(l.session_key)])
             /\ IF l.session_key \notin DOMAIN active_calls
                THEN \* active_calls[session_key]['processing'] = True raises
                     Abort(t)
                ELSE /\ active_calls' = DictDel(active_calls, l.session_key)
                     /\ key_order' = OrderDel(key_order, l.session_key)
                     /\ RunLoop(t, l.phone_number, l.call_data, l.rest,
                                active_calls')

\* the decision service answers
decision_replied(t, reply, write_ok) ==
    /\ thread[t].pc = "evaluating"
    /\ Finish(t, Strip(reply), write_ok)
    /\ UNCHANGED <<now, next_sid, pending, epoch, boundary, asked, n_requests,
                 n_callbacks>>

\* the request to the decision service fails
decision_failed(t, write_ok) ==
    /\ thread[t].pc = "evaluating"
    /\ Finish(t, FallbackVerdict, write_ok)
    /\ UNCHANGED <<now, next_sid, pending, epoch, boundary, asked, n_requests,
                 n_callbacks>>

----------------------------------------------------------------------------
(* The telephony gateway *)

\* The requests are signed by the gateway (validate_twilio_request), and the
\* gateway requests what it was handed: the url of the call it placed, then
\* the action of the <Gather> of the document it was answered with.  It
\* requests the action once speech is captured; the first request of a call
\* carries no speech.
HasGather(document) ==
    \E i \in 1..Len(document) : document[i].verb = "Gather"
GatherAction(document) ==
    document[CHOOSE i \in 1..Len(document) : document[i].verb = "Gather"].action

GatewayStatuses == {"in-progress", "completed"}

gateway_callback(c, previous_response, CallStatus) ==
    LET u == pending[c]
        document == Document(u.application_type, u.name, u.step,
                             previous_response, u.phone_number, CallStatus)
    IN  /\ n_callbacks < MaxCallbacks
        /\ (previous_response = "") <=> (u.step = 0)
        /\ handle_call(u.application_type, u.name, u.step, previous_response,
                       u.phone_number, CallStatus)
        /\ pending' = IF HasGather(document)
                      THEN [pending EXCEPT ![c] = GatherAction(document)]
                      ELSE [x \in (DOMAIN pending) \ {c} |-> pending[x]]

\* the status events the gateway reports for the calls to a number
StatusEvents == {"ringing", "completed"}

----------------------------------------------------------------------------
(* The specification: the server with the gateway, the decision service,   *)
(* the callers and the clients of /call                                    *)

Next ==
    \/ Tick
    \/ \E t \in Threads, type \in {"loan", "cc"}, phone \in Phones, name \in Names :
           call(t, type, phone, name)
    \/ \E t \in Threads : call_created(t)
    \/ \E t \in Threads : call_failed(t)
    \/ \E c \in DOMAIN pending, previous_response \in Utterances,
          CallStatus \in GatewayStatuses :
           gateway_callback(c, previous_response, CallStatus)
    \/ \E t \in Threads, CallStatus \in StatusEvents, To \in Phones,
          CallDuration \in Durations :
           call_status(t, CallStatus, To, CallDuration)
    \/ \E t \in Threads, reply \in Replies, write_ok \in BOOLEAN :
           decision_replied(t, reply, write_ok)
    \/ \E t \in Threads, write_ok \in BOOLEAN : decision_failed(t, write_ok)

Spec == Init /\ [][Next]_vars

----------------------------------------------------------------------------
(* The controller alone, as a function of its request: any step, any       *)
(* utterance, in any order                                                 *)

Steps == (0 - StepsBelow)..(Len(generate_loan_questions) + 1 + StepsBeyond)

\* the decimal digits of a number below 100
DigitsOf(n) == IF n < 10 THEN <<Digits[n + 1]>>
                         ELSE <<Digits[(n \div 10) + 1], Digits[(n % 10) + 1]>>

\* the step parameter as the text of the URL: str(step)
StepText(n) == IF n < 0 THEN <<"-">> \o DigitsOf(0 - n) ELSE DigitsOf(n)

\* the values of the step parameter: the steps, and a text that is no number
StepTexts == {StepText(n) : n \in Steps} \cup {<<"x">>}

\* the values of the application_type parameter, a missing one included
RequestTypes == AppTypes \cup {NoType}

\* step = int(request.args.get('step', 0) ...) and the handler after it
controller_request(application_type, customer_name, step_text, previous_response, phone_number, CallStatus) ==
    /\ n_callbacks < MaxReplays
    /\ IF IsInt(step_text)
       THEN handle_call(application_type, customer_name, ParseInt(step_text),
                        previous_response, phone_number, CallStatus)
       ELSE handle_call_raised(application_type, step_text, previous_response,
                               phone_number, CallStatus)
    /\ UNCHANGED pending

NextController ==
    \E application_type \in RequestTypes, name \in Names, step_text \in StepTexts,
       previous_response \in Utterances, phone \in Phones,
       CallStatus \in GatewayStatuses :
        controller_request(application_type, name, step_text, previous_response,
                           phone, CallStatus)

SpecController == Init /\ [][NextController]_vars

----------------------------------------------------------------------------
(* Finalization alone: the status webhook and the decision service, from   *)
(* the store a call leaves behind that was placed and answered some way    *)
(* through its questions                                                   *)

\* the store after the caller answered the first n questions of a call:
\* the callbacks of steps 2 .. n+1, each with the utterance u
RECURSIVE Answered(_, _, _, _, _, _)
Answered(calls, phone_number, application_type, customer_name, u, n) ==
    IF n = 0 THEN calls
    ELSE StoreResponse(Answered(calls, phone_number, application_type,
                                customer_name, u, n - 1),
                       SessionKey(phone_number, application_type),
                       customer_name, n + 1, u)

\* the number of answers a call of the type can leave, within the bound
AnswerCounts(application_type) ==
    {n \in 0..MaxAnswers : n <= Len(questions(application_type))}

InitFinalization ==
    \E phone \in Phones, application_type \in AppTypes, name \in Names,
       u \in Utterances \ {""}, delivered \in BOOLEAN :
      \E n \in AnswerCounts(application_type) :
        LET session_key == SessionKey(phone, application_type)
            placed == DictSet(<<>>, CallKey(phone),
                              CallEntry(1, name, application_type))
            answered == Answered(placed, phone, application_type, name, u, n)
        IN  /\ now = 0
            /\ active_calls = IF delivered THEN MarkDelivered(answered, session_key)
                                           ELSE answered
            /\ key_order = IF n = 0 THEN <<CallKey(phone)>>
                                    ELSE <<CallKey(phone), session_key>>
            /\ epoch = IF n = 0 THEN <<>> ELSE (session_key :> 1)
            /\ next_sid = 1
            /\ pending = <<>>
            /\ thread = [t \in Threads |-> Idle]
            /\ last = NoResponse
            /\ evaluated = <<>>
            /\ persisted = <<>>
            /\ boundary = {}
            /\ asked = <<>>
            /\ n_requests = 0
            /\ n_callbacks = 0

NextFinalization ==
    \/ \E t \in Threads, CallStatus \in StatusEvents, To \in Phones,
          CallDuration \in Durations :
           call_status(t, CallStatus, To, CallDuration)
    \/ \E t \in Threads, reply \in Replies, write_ok \in BOOLEAN :
           decision_replied(t, reply, write_ok)
    \/ \E t \in Threads, write_ok \in BOOLEAN : decision_failed(t, write_ok)

SpecFinalization == InitFinalization /\ [][NextFinalization]_vars

----------------------------------------------------------------------------
(* Two phone numbers: the webhooks requested for one of them, from a store *)
(* that holds a call and a session of the other as well                    *)

\* the store after a call of the type was placed to the number and its first
\* n questions were answered
Placed(calls, phone_number, application_type, customer_name, n) ==
    Answered(DictSet(calls, CallKey(phone_number),
                     CallEntry(1, customer_name, application_type)),
             phone_number, application_type, customer_name, "Yes sure", n)

\* the insertion order of its keys
PlacedOrder(order, phone_number, application_type, n) ==
    order \o <<CallKey(phone_number)>>
          \o (IF n = 0 THEN <<>> ELSE <<SessionKey(phone_number, application_type)>>)

InitIndependence ==
    \E p \in Phones, q \in OtherPhones, a \in AppTypes, b \in AppTypes,
       name \in Names, n \in 0..MaxForeign :
        /\ now = 0
        /\ active_calls = Placed(Placed(<<>>, q, b, name, MaxForeign), p, a, name, n)
        /\ key_order = PlacedOrder(PlacedOrder(<<>>, q, b, MaxForeign), p, a, n)
        /\ epoch = (SessionKey(q, b) :> 1)
                      @@ (IF n = 0 THEN <<>> ELSE (SessionKey(p, a) :> 1))
        /\ next_sid = 2
        /\ pending = <<>>
        /\ thread = [t \in Threads |-> Idle]
        /\ last = NoResponse
        /\ evaluated = <<>>
        /\ persisted = <<>>
        /\ boundary = {}
        /\ asked = <<>>
        /\ n_requests = 0
        /\ n_callbacks = 0

\* the steps of a credit-card call, from its opening to its outro
ShortSteps == 0..(Len(generate_cc_questions) + 1)

NextIndependence ==
    \/ \E application_type \in AppTypes, name \in Names,
          step_text \in {StepText(n) : n \in ShortSteps},
          previous_response \in Utterances, phone \in Phones,
          CallStatus \in GatewayStatuses :
           /\ n_callbacks < MaxForeign
           /\ controller_request(application_type, name, step_text,
                                 previous_response, phone, CallStatus)
    \/ NextFinalization

SpecIndependence == InitIndependence /\ [][NextIndependence]_vars

----------------------------------------------------------------------------
(* Vocabulary of the properties *)

\* the session key an application type and a phone number make
AllSessionKeys == {SessionKey(p, a) : p \in Phones, a \in AppTypes}

\* the application type a session key was made from
TypeOfKey(k) == CHOOSE a \in AppTypes : SplitType(a) = SubSeq(k, 2, Len(k))

\* how often the decision service was invoked for key k
Evaluations(k) ==
    Cardinality({i \in 1..Len(evaluated) : evaluated[i].session_key = k})

\* how many result records were written for key k
Records(k) ==
    Cardinality({i \in 1..Len(persisted) : persisted[i].session_key = k})

\* the same, for the e-th session created under key k
EvaluationsOf(k, e) ==
    Cardinality({i \in 1..Len(evaluated) :
                    evaluated[i].session_key = k /\ evaluated[i].epoch = e})
RecordsOf(k, e) ==
    Cardinality({i \in 1..Len(persisted) :
                    persisted[i].session_key = k /\ persisted[i].epoch = e})

\* thread t is inside process_incomplete_application for key k
Finalizing(t, k) ==
    thread[t].pc = "evaluating" /\ thread[t].session_key = k

\* the texts a document speaks, those nested in a <Gather> included
Spoken(document) ==
    {document[i].text : i \in {j \in 1..Len(document) : document[j].verb = "Say"}}
    \cup UNION {{document[i].nested[n].text : n \in 1..Len(document[i].nested)} :
                   i \in {j \in 1..Len(document) : document[j].verb = "Gather"}}

\* the document ends in a <Gather> or a <Hangup>
EndsInListenOrHangup(document) ==
    /\ Len(document) > 0
    /\ document[Len(document)].verb \in {"Gather", "Hangup"}

Verdicts == {"YES", "NO", "INVESTIGATION_REQUIRED"}

\* the last request served is /handle-call at the terminal question boundary
AtBoundary(application_type, phone_number) ==
    /\ last.op = "handle_call"
    /\ last.application_type = application_type
    /\ last.phone_number = phone_number
    /\ last.step = Len(questions(application_type)) + 1

----------------------------------------------------------------------------
(* Properties *)

\* C1: Normal completion finalizes exactly once.  When the controller has
\* handled the terminal question boundary (step = len(questions) + 1) of the
\* one call placed to a number, the call still going on, for a key with
\* recorded answers, the decision
\* service has been invoked exactly once for that key and exactly one result
\* record has been written, whether or not a terminal status has arrived.
C1_NormalCompletionFinalizesOnce ==
    \A p \in Phones, a \in AppTypes :
        (/\ AtBoundary(a, p)
         /\ last.CallStatus \notin TerminalStatuses
         /\ next_sid = 1
         /\ Epoch(SessionKey(p, a)) >= 1)
        => (/\ Evaluations(SessionKey(p, a)) = 1
            /\ Records(SessionKey(p, a)) = 1)

\* C2: Concurrent finalization is at-most-once.  When two finalizations of
\* the same session key run concurrently, the decision service has been
\* invoked at most once for that session and at most one record is written.
C2_ConcurrentFinalizationAtMostOnce ==
    \A k \in AllSessionKeys :
        (\E t, u \in Threads : t # u /\ Finalizing(t, k) /\ Finalizing(u, k))
        => (/\ EvaluationsOf(k, Epoch(k)) <= 1
            /\ RecordsOf(k, Epoch(k)) <= 1)

\* C3: Step-2 convention.  A callback at step N in [2, len(questions)] with a
\* non-empty utterance, while the call goes on, stores the utterance at index
\* N-2, speaks questions[N-1] and listens at step N+1.
C3_StepTwoConvention ==
    (/\ last.op = "handle_call"
     /\ last.step >= 2
     /\ last.step <= Len(questions(last.application_type))
     /\ last.previous_response # ""
     /\ last.CallStatus \notin TerminalStatuses)
    => LET k == SessionKey(last.phone_number, last.application_type)
       IN  /\ k \in DOMAIN active_calls
           /\ (last.step - 2) \in DOMAIN active_calls[k].responses
           /\ active_calls[k].responses[last.step - 2] = last.previous_response
           /\ Spoken(last.document) =
                  {<<QuestionAt(last.application_type, last.step - 1)>>}
           /\ HasGather(last.document)
           /\ GatherAction(last.document).step = last.step + 1

\* C4: Minimum-answer threshold.  The decision service is never invoked, and
\* no record is written, for a session with fewer than 5 recorded responses.
C4_MinimumAnswerThreshold ==
    /\ \A i \in 1..Len(evaluated) :
           Cardinality(DOMAIN evaluated[i].application_data) >= 5
    /\ \A i \in 1..Len(persisted) :
           \E j \in 1..Len(evaluated) :
               /\ evaluated[j].session_key = persisted[i].session_key
               /\ Cardinality(DOMAIN evaluated[j].application_data) >= 5

\* C5: Persisted-record round trip.  Every result record carries the phone
\* number and the application type of the session it was made from, and the
\* session was evaluated with the rubric of its application type.
C5_RecordRoundTrip ==
    /\ \A i \in 1..Len(persisted) :
           LET r == persisted[i]
           IN  /\ r.response_data.phone_number = r.session_key[1]
               /\ r.response_data.application_type =
                      RecordType(TypeOfKey(r.session_key))
    /\ \A i \in 1..Len(evaluated) :
           evaluated[i].rubric = Rubric(TypeOfKey(evaluated[i].session_key))

\* C6: The session is destroyed after finalization.  Once the controller has
\* handled the terminal boundary step of a key and a terminal /call-status for
\* its phone number has been processed, no entry for the key is in the store.
C6_SessionDestroyed ==
    \A p \in Phones, a \in AppTypes :
        (/\ last.op = "call_status"
         /\ last.CallStatus \in TerminalStatuses
         /\ last.To = p
         /\ SessionKey(p, a) \in boundary
         /\ \A t \in Threads : thread[t].pc # "evaluating")
        => SessionKey(p, a) \notin DOMAIN active_calls

\* C7: Every controller response is a complete directive: it speaks at least
\* once and ends in a listen or a hangup, for every step >= 0.
C7_CompleteDirective ==
    last.op = "handle_call"
    => (/\ Spoken(last.document) # {}
        /\ EndsInListenOrHangup(last.document))

\* C8: The verdict is three-valued: every verdict written to a result record
\* is YES, NO or INVESTIGATION_REQUIRED.
C8_VerdictThreeValued ==
    \A i \in 1..Len(persisted) : persisted[i].response_data.verdict \in Verdicts

\* C9: A successful initiate that replaces an entry older than the cooldown
\* window seeds a fresh session: after it, the entry of
\* the call (while it is the one stored) has the time of the initiate, and the
\* session of its key holds no response and no verdict_delivered flag of an
\* earlier call.
C9_InitiateSeedsFreshSession ==
    (/\ last.op = "call"
     /\ last.status = 200
     /\ last.replaced
     /\ CallKey(last.phone) \in DOMAIN active_calls
     /\ active_calls[CallKey(last.phone)].call_sid = last.call_sid)
    => LET k == SessionKey(last.phone, last.application_type)
       IN  /\ active_calls[CallKey(last.phone)].timestamp = last.at
           /\ k \in DOMAIN active_calls
              => (/\ DOMAIN active_calls[k].responses = {}
                  /\ ~VerdictDelivered(active_calls[k]))

\* C10: Conflict is per composite key: an initiate is rejected with a conflict
\* only when a call of the same application type to the same phone number is
\* younger than the cooldown.
C10_ConflictPerCompositeKey ==
    (last.op = "call" /\ last.status = 409)
    => (/\ CallKey(last.phone) \in DOMAIN active_calls
        /\ active_calls[CallKey(last.phone)].application_type
               = last.application_type
        /\ InCooldown(last.at - active_calls[CallKey(last.phone)].timestamp))

\* C11: Duplicate initiate within the cooldown.  A call the gateway places is
\* answered with success and the gateway's call handle, which is stored; an
\* initiate for the same phone number and application type, arriving while the
\* stored call entry is younger than the cooldown, is answered with a conflict
\* that carries the stored handle, places no new call and leaves the store
\* unchanged.
C11_DuplicateInitiateConflicts ==
    [][ /\ next_sid' # next_sid
           => (/\ last'.op = "call"
               /\ last'.status = 200
               /\ last'.call_sid = next_sid'
               /\ CallKey(last'.phone) \in DOMAIN active_calls'
               /\ active_calls'[CallKey(last'.phone)].call_sid = last'.call_sid)
        /\ \A t \in Threads, type \in {"loan", "cc"}, phone \in Phones, name \in Names :
              (/\ n_requests' # n_requests
               /\ CallKey(phone) \in DOMAIN active_calls
               /\ active_calls[CallKey(phone)].application_type = InternalType(type)
               /\ now - active_calls[CallKey(phone)].timestamp < Cooldown
               /\ call(t, type, phone, name))
              => (/\ last'.op = "call"
                  /\ last'.status = 409
                  /\ last'.call_sid = active_calls[CallKey(phone)].call_sid
                  /\ next_sid' = next_sid
                  /\ thread' = thread
                  /\ active_calls' = active_calls
                  /\ key_order' = key_order) ]_vars

\* a conflict was answered to a second initiate of the same application type,
\* with the handle of the one call placed
C11_Witness ==
    /\ last.op = "call"
    /\ last.status = 409
    /\ next_sid = 1
    /\ CallKey(last.phone) \in DOMAIN active_calls
    /\ active_calls[CallKey(last.phone)].application_type = last.application_type
    /\ active_calls[CallKey(last.phone)].call_sid = last.call_sid

\* the session of key k awaits finalization with at least 5 recorded responses
\* and is the only session of its phone number
AwaitsFinalization(k) ==
    /\ k \in DOMAIN active_calls
    /\ Has(active_calls[k], "responses")
    /\ Cardinality(DOMAIN active_calls[k].responses) >= 5
    /\ ~VerdictDelivered(active_calls[k])
    /\ \A j \in AllSessionKeys \ {k} : j[1] = k[1] => j \notin DOMAIN active_calls

\* C12: Premature termination is finalized.  A terminal call-status arriving
\* for a phone number whose session has at least 5 recorded responses and no
\* verdict delivered invokes the decision service once for it; when the
\* service has answered or failed and the result file is written, one record
\* is added for the session, without a further invocation, and the session is
\* removed; a terminal call-status arriving after that changes nothing.
C12_PrematureTerminationFinalized ==
    [][ \A k \in AllSessionKeys, t \in Threads :
          /\ \A CallStatus \in TerminalStatuses, CallDuration \in Durations :
                (/\ n_requests' # n_requests
                 /\ AwaitsFinalization(k)
                 /\ call_status(t, CallStatus, k[1], CallDuration))
                => (/\ Len(evaluated') = Len(evaluated) + 1
                    /\ evaluated'[Len(evaluated')].session_key = k
                    /\ evaluated'[Len(evaluated')].application_data
                           = active_calls[k].responses
                    /\ persisted' = persisted)
          /\ \A reply \in Replies :
                (/\ n_requests' = n_requests
                 /\ Finalizing(t, k)
                 /\ AwaitsFinalization(k)
                 /\ (thread[t].call_data.CallDuration = <<>>
                     \/ IsInt(thread[t].call_data.CallDuration))
                 /\ (decision_replied(t, reply, TRUE) \/ decision_failed(t, TRUE)))
                => (/\ Len(persisted') = Len(persisted) + 1
                    /\ persisted'[Len(persisted')].session_key = k
                    /\ evaluated' = evaluated
                    /\ k \notin DOMAIN active_calls')
          /\ \A CallStatus \in TerminalStatuses, CallDuration \in Durations :
                (/\ n_requests' # n_requests
                 /\ Records(k) >= 1
                 /\ \A j \in AllSessionKeys : j[1] = k[1] => j \notin DOMAIN active_calls
                 /\ call_status(t, CallStatus, k[1], CallDuration))
                => (/\ evaluated' = evaluated
                    /\ persisted' = persisted
                    /\ active_calls' = active_calls
                    /\ thread' = thread) ]_vars

\* a session with 5 responses was evaluated once and written once, it is
\* gone, and a later terminal call-status has been answered
C12_Witness ==
    \E k \in AllSessionKeys :
        /\ Evaluations(k) = 1
        /\ Records(k) = 1
        /\ Cardinality(DOMAIN evaluated[1].application_data) >= 5
        /\ k \notin DOMAIN active_calls
        /\ n_requests >= 2
        /\ last.op = "call_status"
        /\ last.CallStatus \in TerminalStatuses
        /\ \A t \in Threads : thread[t].pc = "idle"

\* C13: Finalization is a no-op when there is nothing to finalize.  While the
\* session of a key is absent or has verdict_delivered set, no step of the
\* status webhook invokes the decision service for the key or changes the
\* entry, and none writes a record for it unless a finalization of the key
\* was already under way.
C13_NothingToFinalize ==
    [][ \A k \in AllSessionKeys :
          (k \notin DOMAIN active_calls \/ VerdictDelivered(active_calls[k]))
          => (/\ Evaluations(k)' = Evaluations(k)
              /\ (\A t \in Threads : ~Finalizing(t, k)) => Records(k)' = Records(k)
              /\ (k \in DOMAIN active_calls) <=> (k \in DOMAIN active_calls')
              /\ k \in DOMAIN active_calls => active_calls'[k] = active_calls[k]) ]_vars

\* a terminal call-status was answered for a phone number whose session has
\* responses and verdict_delivered set: nothing was evaluated or written
C13_Witness ==
    \E k \in AllSessionKeys :
        /\ last.op = "call_status"
        /\ last.CallStatus \in TerminalStatuses
        /\ last.To = k[1]
        /\ k \in DOMAIN active_calls
        /\ VerdictDelivered(active_calls[k])
        /\ DOMAIN active_calls[k].responses # {}
        /\ evaluated = <<>>
        /\ persisted = <<>>

\* C14: verdict_delivered is monotonic.  No step takes the flag from an entry
\* that has it set and stays in the store.
C14_VerdictDeliveredMonotonic ==
    [][ \A k \in AllSessionKeys :
          (/\ k \in DOMAIN active_calls
           /\ VerdictDelivered(active_calls[k])
           /\ k \in DOMAIN active_calls')
          => VerdictDelivered(active_calls'[k]) ]_vars

\* the controller has stored a response, in the middle of the questions of a
\* call that goes on, in a session whose flag an earlier call had set
C14_Witness ==
    /\ last.op = "handle_call"
    /\ last.step >= 2
    /\ last.step <= Len(questions(last.application_type))
    /\ last.previous_response # ""
    /\ last.CallStatus \notin TerminalStatuses
    /\ LET k == SessionKey(last.phone_number, last.application_type)
       IN  /\ k \in DOMAIN active_calls
           /\ VerdictDelivered(active_calls[k])
           /\ active_calls[k].responses[last.step - 2] = last.previous_response

\* the document that declines and hangs up
DeclineDocument == <<Say(DeclineLine), Hangup>>

\* C15: Negative consent ends the call without recording.  For step 1 and an
\* utterance that is empty or holds no affirmative keyword the controller's
\* document is the decline line followed by a hangup, with no listen; the
\* callback records nothing, and the gateway is left with no callback to
\* request for that call, so that nothing is recorded for it afterwards.
C15_NegativeConsent ==
    /\ \A a \in AppTypes, name \in Names, p \in Phones, u \in Utterances,
          CallStatus \in GatewayStatuses :
            ~(u # "" /\ \E word \in AffirmativeWords :
                            Contains(Lower(Chars(u)), Chars(word)))
            => Document(a, name, 1, u, p, CallStatus) = DeclineDocument
    /\ [][ (/\ n_callbacks' = n_callbacks + 1
            /\ last'.op = "handle_call"
            /\ last'.step = 1
            /\ last'.previous_response \in {"", "no thanks"})
           => (/\ last'.document = DeclineDocument
               /\ ~HasGather(last'.document)
               /\ active_calls' = active_calls
               /\ key_order' = key_order
               /\ <<last'.phone_number, last'.application_type>>
                      \notin DOMAIN pending') ]_vars

\* the caller said "no thanks" at step 1: the call was hung up, its key holds
\* no session, and the gateway has no callback left for it
C15_Witness ==
    /\ last.op = "handle_call"
    /\ last.step = 1
    /\ last.previous_response = "no thanks"
    /\ last.document = DeclineDocument
    /\ SessionKey(last.phone_number, last.application_type) \notin DOMAIN active_calls
    /\ <<last.phone_number, last.application_type>> \notin DOMAIN pending

\* the document that starts the questionnaire: the transition line, then the
\* first question spoken inside a listen that points at step 2
StartDocument(application_type, customer_name, phone_number) ==
    << Say(TransitionLine(application_type)),
       Pause,
       Gather(Url(application_type, customer_name, 2, phone_number),
              <<Say(<<questions(application_type)[1]>>)>>) >>

\* C16: Affirmative consent starts the questionnaire.  For step 1 and an
\* utterance that holds an affirmative keyword the controller's document
\* speaks the transition line, then questions[0] inside a listen pointing at
\* step 2, and the callback leaves the session store unchanged.
C16_AffirmativeConsent ==
    /\ \A a \in AppTypes, name \in Names, p \in Phones, u \in Utterances,
          CallStatus \in GatewayStatuses :
            (u # "" /\ \E word \in AffirmativeWords :
                           Contains(Lower(Chars(u)), Chars(word)))
            => Document(a, name, 1, u, p, CallStatus) = StartDocument(a, name, p)
    /\ [][ (/\ n_callbacks' = n_callbacks + 1
            /\ last'.op = "handle_call"
            /\ last'.step = 1
            /\ last'.previous_response = "Yes sure")
           => (/\ Len(last'.document) = 3
               /\ last'.document[1] = Say(TransitionLine(last'.application_type))
               /\ last'.document[3].verb = "Gather"
               /\ last'.document[3].action.step = 2
               /\ last'.document[3].nested
                      = <<Say(<<questions(last'.application_type)[1]>>)>>
               /\ active_calls' = active_calls
               /\ key_order' = key_order) ]_vars

\* the caller said "Yes sure" at step 1 and was asked the first question
C16_Witness ==
    /\ last.op = "handle_call"
    /\ last.step = 1
    /\ last.previous_response = "Yes sure"
    /\ HasGather(last.document)
    /\ GatherAction(last.document).step = 2
    /\ <<questions(last.application_type)[1]>> \in Spoken(last.document)
    /\ SessionKey(last.phone_number, last.application_type) \notin DOMAIN active_calls

\* the responses recorded under key k in the dictionary calls
ResponsesOf(calls, k) == IF k \in DOMAIN calls THEN calls[k].responses ELSE <<>>

\* C17: One utterance, one index, overwrite on replay.  A callback at a step N
\* of the question range, N >= 2, with a non-empty utterance sets the response
\* at question index N-2 of its session to the utterance and changes no other
\* index and no other entry; when the index was recorded before, the value is
\* replaced and the number of recorded responses stays the same.
C17_OneUtteranceOneIndex ==
    [][ (/\ n_callbacks' = n_callbacks + 1
         /\ last'.op = "handle_call"
         /\ last'.application_type \in AppTypes
         /\ last'.step >= 2
         /\ last'.step <= Len(questions(last'.application_type)) + 1
         /\ last'.previous_response # "")
        => LET k == SessionKey(last'.phone_number, last'.application_type)
               index == last'.step - 2
               old == ResponsesOf(active_calls, k)
               new == ResponsesOf(active_calls', k)
           IN  /\ k \in DOMAIN active_calls'
               /\ index \in 0..(Len(questions(last'.application_type)) - 1)
               /\ DOMAIN new = DOMAIN old \cup {index}
               /\ new[index] = last'.previous_response
               /\ \A i \in DOMAIN old \ {index} : new[i] = old[i]
               /\ index \in DOMAIN old
                  => Cardinality(DOMAIN new) = Cardinality(DOMAIN old)
               /\ DOMAIN active_calls' = DOMAIN active_calls \cup {k}
               /\ \A j \in DOMAIN active_calls \ {k} :
                      active_calls'[j] = active_calls[j] ]_vars

\* step 2 was run again with another utterance: one response is recorded,
\* the later one
C17_Witness ==
    /\ last.op = "handle_call"
    /\ last.step = 2
    /\ last.replay
    /\ last.previous_response = "no thanks"
    /\ LET k == SessionKey(last.phone_number, last.application_type)
       IN  /\ k \in DOMAIN active_calls
           /\ DOMAIN active_calls[k].responses = {0}
           /\ active_calls[k].responses[0] = "no thanks"

\* C18: A decision-service failure degrades to the conservative verdict.
\* When the request to the decision service fails while a session is being
\* finalized, and the result file can be written, the finalization goes on:
\* a record is written for the session whose verdict is
\* INVESTIGATION_REQUIRED, and the session is removed.
C18_FailureDegrades ==
    [][ \A t \in Threads :
          (/\ thread[t].pc = "evaluating"
           /\ thread[t].session_key \in DOMAIN active_calls
           /\ (thread[t].call_data.CallDuration = <<>>
               \/ IsInt(thread[t].call_data.CallDuration))
           /\ decision_failed(t, TRUE))
          => (/\ Len(persisted') = Len(persisted) + 1
              /\ persisted'[Len(persisted')].session_key = thread[t].session_key
              /\ persisted'[Len(persisted')].response_data.verdict
                     = "INVESTIGATION_REQUIRED"
              /\ thread[t].session_key \notin DOMAIN active_calls') ]_vars

\* a record with the conservative verdict, which the decision service of the
\* model never answers, was written and its session is gone
C18_Witness ==
    \E i \in 1..Len(persisted) :
        /\ persisted[i].response_data.verdict = "INVESTIGATION_REQUIRED"
        /\ \A reply \in Replies : Strip(reply) # "INVESTIGATION_REQUIRED"
        /\ persisted[i].session_key \notin DOMAIN active_calls

\* C19: Controller errors become an apology and a hangup.  A request whose
\* step is no number, a request without an application type for which the
\* handler builds the next URL, and a request whose question index lies
\* outside the catalog are each answered with the apology line followed by a
\* hangup.
C19_ErrorsBecomeApology ==
    /\ last.op = "handle_call_raised"
       => last.document = <<Say(ApologyLine), Hangup>>
    /\ (/\ last.op = "handle_call"
        /\ last.CallStatus \notin TerminalStatuses
        /\ \/ last.application_type = NoType /\ last.step = 0
           \/ /\ last.application_type = NoType
              /\ last.step = 1
              /\ last.previous_response = "Yes sure"
           \/ /\ last.application_type = NoType
              /\ last.step >= 2
              /\ last.step <= Len(generate_cc_questions)
           \/ /\ last.step < 0
              /\ last.step - 2 < 0 - Len(questions(last.application_type)))
       => last.document = <<Say(ApologyLine), Hangup>>

\* a request with a step that is no number was answered with the apology
C19_Witness ==
    /\ last.op = "handle_call_raised"
    /\ ~IsInt(last.step_text)
    /\ last.document = <<Say(ApologyLine), Hangup>>

\* the entries of the store that belong to phone number q, by their keys
EntriesOf(calls, q) ==
    [k \in {j \in DOMAIN calls : j[1] = q} |-> calls[k]]

\* C20: Sessions of different phone numbers are independent.  The callbacks
\* for one phone number create, change and delete no entry of another phone
\* number, and finalize no session of it: nothing is evaluated or written for
\* a key of the other number.
C20_PhonesIndependent ==
    /\ [][ \A q \in OtherPhones :
              EntriesOf(active_calls', q) = EntriesOf(active_calls, q) ]_vars
    /\ [](\A q \in OtherPhones :
             /\ \A i \in 1..Len(evaluated) : evaluated[i].session_key[1] # q
             /\ \A i \in 1..Len(persisted) :
                    /\ persisted[i].session_key[1] # q
                    /\ persisted[i].response_data.phone_number # q)

\* a session of one phone number was finalized and removed while the call
\* and the session of the other number are in the store
C20_Witness ==
    \E p \in Phones, q \in OtherPhones, a \in AppTypes, b \in AppTypes :
        /\ Records(SessionKey(p, a)) >= 1
        /\ SessionKey(p, a) \notin DOMAIN active_calls
        /\ n_callbacks >= 1
        /\ CallKey(q) \in DOMAIN active_calls
        /\ SessionKey(q, b) \in DOMAIN active_calls
        /\ DOMAIN active_calls[SessionKey(q, b)].responses # {}

\* C21: Every catalog question is asked once, in order.  When the one call
\* placed to a number has run from the consent step through the question
\* steps to the outro, the call still going on, the questions spoken in the
\* flow are exactly questions[0..len-1] of the application type, each once
\* and in catalog order.
C21_EveryQuestionAskedInOrder ==
    \A p \in Phones, a \in AppTypes :
        (/\ AtBoundary(a, p)
         /\ last.CallStatus \notin TerminalStatuses
         /\ last.document = OutroDocument
         /\ next_sid = 1)
        => Asked(p, a) = [i \in 1..Len(questions(a)) |-> <<questions(a)[i]>>]

\* C22: An answer is stored under the index of the question it answers.  When
\* a callback of the one call placed to a number has stored a non-empty
\* utterance at responses[i], the question spoken by the directive before the
\* callback is questions[i].
C22_AnswerUnderItsQuestion ==
    \A p \in Phones, a \in AppTypes :
        (/\ last.op = "handle_call"
         /\ last.application_type = a
         /\ last.phone_number = p
         /\ last.step >= 2
         /\ InQuestionRange(last.step, a)
         /\ last.previous_response # ""
         /\ next_sid = 1
         /\ SessionKey(p, a) \in DOMAIN active_calls
         /\ ResponseIndex(last.step) \in DOMAIN active_calls[SessionKey(p, a)].responses)
        => last.answers = <<QuestionAt(a, ResponseIndex(last.step))>>

\* the number of calls placed so far to the one phone number of Phones
CallsPlaced == next_sid

\* C23: At most one call is placed per phone number inside a cooldown window,
\* also under concurrency.  While the first cooldown window has not elapsed,
\* at most one call has been placed to the phone number, however the initiate
\* requests for it interleave.
C23_OneCallPerCooldownWindow ==
    now < Cooldown => CallsPlaced <= 1

\* the request thread t has taken up the session of key k: it waits for the
\* decision service on it, or has it among the keys its loop goes on to
TakenUp(t, k) ==
    /\ thread[t].pc = "evaluating"
    /\ \/ thread[t].session_key = k
       \/ \E i \in 1..Len(thread[t].rest) : thread[t].rest[i] = k

\* C24: An earlier completed interview does not block a later one.  When the
\* session of a key carries the outro mark of an earlier call, the flow of a
\* later call to the key has recorded an answer (it is past step 2) and has
\* not handled its terminal boundary, a terminal call-status arriving for the
\* phone number takes the session up for evaluation.
C24_LaterInterviewFinalized ==
    [][ \A p \in Phones, a \in AppTypes :
          (/\ n_requests' = n_requests + 1
           /\ SessionKey(p, a) \in DOMAIN active_calls
           /\ VerdictDelivered(active_calls[SessionKey(p, a)])
           /\ <<p, a>> \in DOMAIN pending
           /\ pending[<<p, a>>].step >= 3
           /\ pending[<<p, a>>].step <= Len(questions(a)) + 1
           /\ \E t \in Threads, CallStatus \in TerminalStatuses \cap StatusEvents,
                 CallDuration \in Durations :
                  call_status(t, CallStatus, p, CallDuration))
          => \E t \in Threads : thread[t].pc = "idle" /\ TakenUp(t, SessionKey(p, a))'
      ]_vars

\* C25: A terminal call-status finalizes only the ended call's session.  One
\* /call-status request invokes the decision service for the session of one
\* application type only: when its loop goes on after a session, it does not
\* invoke the service for a session of the other application type of the
\* phone number.
C25_OnlyEndedCallFinalized ==
    [][ \A t \in Threads :
          (/\ thread[t].pc = "evaluating"
           /\ thread'[t].pc = "evaluating"
           /\ Len(evaluated') = Len(evaluated) + 1)
          => thread'[t].application_type = thread[t].application_type
      ]_vars

\* C26: No re-evaluation after a failed persist.  A terminal /call-status
\* arriving while no other finalization is under way does not invoke the
\* decision service for a session the service was invoked for before and no
\* record of which was written.
C26_NoReevaluationAfterFailedPersist ==
    [][ \A k \in AllSessionKeys :
          (/\ n_requests' = n_requests + 1
           /\ \A t \in Threads : thread[t].pc = "idle"
           /\ EvaluationsOf(k, Epoch(k)) >= 1
           /\ RecordsOf(k, Epoch(k)) = 0)
          => ~ \E t \in Threads : Finalizing(t, k)'
      ]_vars

\* the response indices of every session in `calls` lie in the catalog of the
\* session's application type, and there are no more of them than questions
InCatalog(calls) ==
    \A k \in AllSessionKeys \cap DOMAIN calls :
        LET len == Len(questions(TypeOfKey(k)))
        IN  /\ DOMAIN calls[k].responses \subseteq 0..(len - 1)
            /\ Cardinality(DOMAIN calls[k].responses) <= len

\* C27: Recorded answer indices stay inside the catalog.  No session exists
\* at first, and a /handle-call callback with step >= 0 (or one whose step
\* does not parse), arriving when every response index of every session is in
\* [0, len(questions)-1] for the session's application type and no session
\* has more responses than questions, leaves it so.
C27_IndicesInsideCatalog ==
    /\ active_calls = <<>>
    /\ [][ (/\ n_callbacks' = n_callbacks + 1
            /\ last'.op = "handle_call" => last'.step >= 0
            /\ InCatalog(active_calls))
           => InCatalog(active_calls') ]_vars

\* the reply at the last step of the question range was stored under the
\* last index of the catalog, next to an earlier response
C27_Witness ==
    /\ last.op = "handle_call"
    /\ last.application_type \in AppTypes
    /\ last.step = Len(questions(last.application_type)) + 1
    /\ last.previous_response # ""
    /\ InCatalog(active_calls)
    /\ LET k == SessionKey(last.phone_number, last.application_type)
       IN  /\ k \in DOMAIN active_calls
           /\ (Len(questions(last.application_type)) - 1)
                  \in DOMAIN active_calls[k].responses
           /\ Cardinality(DOMAIN active_calls[k].responses) = 2

====
